---- MODULE Spec2Model ----
(***************************************************************************)
(* Model of src/main.py: the FastAPI todo service over one SQLite table,   *)
(* accessed through one SQLAlchemy session per request.                    *)
(*                                                                         *)
(* Handlers are plain `def` functions, so the server runs them on worker   *)
(* threads and two requests can interleave between their database calls.   *)
(* A handler is therefore split at its database calls: query / commit /    *)
(* refresh, and the close() of get_db's finally block.  SELECTs run        *)
(* outside a transaction (the sqlite3 driver only opens one in front of    *)
(* INSERT/UPDATE/DELETE), and a commit is the atomic BEGIN..COMMIT of the  *)
(* session's flush.                                                        *)
(***************************************************************************)
EXTENDS FiniteSets, Integers, Sequences, TLC

(* ------------------------------ bounds --------------------------------- *)
\* total number of requests served in one behaviour
MaxRequests == 3
\* path parameters todo_id are drawn from 1..MaxId
MaxId == 2
\* requests in flight at once, each on its own worker thread; req[1] is the
\* one that arrived first
Reqs == {1, 2}
\* request body strings (the empty string included)
Contents == {"", "a"}

(* --------------------------- optional values --------------------------- *)
\* Python None / SQL NULL
None == <<>>
Some(v) == <<v>>
Val(o) == o[1]
Option(S) == {None} \cup {Some(v) : v \in S}

(* ------------------------------ the table ------------------------------ *)
\* class TodoDB: one row of table "todos"; content and completed are columns
\* that can hold NULL at the Python level, todo_id is the INTEGER PRIMARY KEY
Row(id, content, completed) ==
    [todo_id |-> id, content |-> content, completed |-> completed]

Ids(t) == {row.todo_id : row \in t}

Max(S) == CHOOSE m \in S : \A n \in S : n <= m

\* SQLite rowid allocation for an INTEGER PRIMARY KEY column declared without
\* AUTOINCREMENT: 1 on an empty table, else the largest rowid in use plus one.
NextRowId(t) == IF t = {} THEN 1 ELSE Max(Ids(t)) + 1

\* A query that forgets its filter and returns whatever row comes first.
FirstUnfiltered(t, id) == IF t = {} THEN None ELSE Some(CHOOSE row \in t : TRUE)

\* db.query(TodoDB).filter(TodoDB.todo_id == todo_id).first()
First(t, id) ==
    IF \E row \in t : row.todo_id = id
    THEN Some(CHOOSE row \in t : row.todo_id = id)
    ELSE None

\* A listing that leaves the completed items out.
AllOpen(t) == {row \in t : row.completed = Some(FALSE)}

\* db.query(TodoDB).all()
All(t) == t

\* A constructor that stores a fixed content instead of the request's.
NewTodoBlank(content) == [content |-> Some(""), completed |-> Some(FALSE)]

\* TodoDB(content=todo.content, completed=False)
NewTodo(content) == [content |-> Some(content), completed |-> Some(FALSE)]

\* INSERT of a pending object: the table assigns the primary key
Insert(t, new) == t \cup {Row(NextRowId(t), new.content, new.completed)}

\* An update that assigns both attributes whether supplied or not.
ApplyUpdateAlways(todo, upd) ==
    [todo EXCEPT !.content = upd.content, !.completed = upd.completed]

\* An update that tests content only and assigns completed unconditionally.
ApplyUpdateNull(todo, upd) ==
    LET t1 == IF upd.content # None
              THEN [todo EXCEPT !.content = upd.content] ELSE todo
    IN  [t1 EXCEPT !.completed = upd.completed]

\* update_todo, "Update fields if provided"
ApplyUpdate(todo, upd) ==
    LET t1 == IF upd.content # None
              THEN [todo EXCEPT !.content = upd.content] ELSE todo
    IN  IF upd.completed # None
        THEN [t1 EXCEPT !.completed = upd.completed] ELSE t1

\* The unit of work: the attributes whose value differs from the loaded one
\* are the only columns of the UPDATE statement.
Dirty(loaded, todo) ==
    {c \in {"content", "completed"} : todo[c] # loaded[c]}

\* UPDATE todos SET <dirty columns> WHERE todo_id = id
UpdateRows(t, id, cols, todo) ==
    {IF row.todo_id = id
     THEN [c \in DOMAIN row |-> IF c \in cols THEN todo[c] ELSE row[c]]
     ELSE row : row \in t}

\* DELETE FROM todos WHERE todo_id = id
DeleteRows(t, id) == {row \in t : row.todo_id # id}

(* ------------------------------ the state ------------------------------ *)
VARIABLES
    table,       \* rows of table "todos"
    req,         \* the requests in flight, in order of arrival
    sessions,    \* sessions created by SessionLocal() and not yet closed
    nextSession, \* identity of the next session SessionLocal() creates
    assigned,    \* history: ids assigned by committed Creates, in order
    deleted,     \* history: ids whose row a Delete removed
    overtaken    \* history: ids deleted between an Update's read and commit

vars == <<table, req, sessions, nextSession, assigned, deleted, overtaken>>

NoUpdate == [content |-> None, completed |-> None]

Idle ==
    [pc |-> "idle", op |-> "none", todo_id |-> 0, upd |-> NoUpdate,
     loaded |-> None, todo |-> None, status |-> 0, detail |-> "",
     body |-> {}, db |-> 0, wrote |-> FALSE]

\* Base.metadata.create_all: todos.db is a file that outlives the process, so
\* the service starts on a fresh table or on one that an earlier run left
\* with the item it created first
Init ==
    /\ \/ table = {} /\ assigned = <<>>
       \/ /\ table = Insert({}, NewTodo("a"))
          /\ assigned = <<NextRowId({})>>
    /\ req = [r \in Reqs |-> Idle]
    /\ sessions = {}
    /\ nextSession = 1
    /\ deleted = {}
    /\ overtaken = {}

hist == <<assigned, deleted, overtaken>>

(* --------------------------- request arrival --------------------------- *)
\* A request arrives behind the ones in flight and is handed to a worker
\* thread, which runs get_db up to its yield: db = SessionLocal()
Acquire(r, op, id, upd, pc) ==
    /\ req[r].pc = "idle"
    /\ \A q \in Reqs : q < r => req[q].pc # "idle"
    /\ nextSession <= MaxRequests
    /\ req' = [req EXCEPT ![r] = [Idle EXCEPT !.pc = pc, !.op = op,
                                   !.todo_id = id, !.upd = upd,
                                   !.db = nextSession]]
    /\ sessions' = sessions \cup {nextSession}
    /\ nextSession' = nextSession + 1
    /\ UNCHANGED <<table, hist>>

\* GET /todos
RequestList(r) == Acquire(r, "list", 0, NoUpdate, "query")

\* GET /todos/{todo_id}
RequestGet(r) == \E id \in 1..MaxId : Acquire(r, "get", id, NoUpdate, "query")

\* POST /todos with a TodoCreate body; db.add(new_todo) touches no table
RequestCreate(r) ==
    \E c \in Contents :
        Acquire(r, "create", 0, [content |-> Some(c), completed |-> None],
                "commit")

\* PUT /todos/{todo_id} with a TodoUpdate body: each field absent/null or set
RequestUpdate(r) ==
    \E id \in 1..MaxId, c \in Option(Contents), b \in Option(BOOLEAN) :
        Acquire(r, "update", id, [content |-> c, completed |-> b], "query")

\* DELETE /todos/{todo_id}
RequestDelete(r) ==
    \E id \in 1..MaxId : Acquire(r, "delete", id, NoUpdate, "query")

(* ------------------------------ handlers ------------------------------- *)
Respond(r, status, detail, body) ==
    [req[r] EXCEPT !.pc = "exit", !.status = status, !.detail = detail,
                   !.body = body]

NotFound(r) == Respond(r, 404, "Todo not found", {})

\* get_all_todos
ListTodos(r) ==
    /\ req[r].pc = "query" /\ req[r].op = "list"
    /\ req' = [req EXCEPT ![r] = Respond(r, 200, "", All(table))]
    /\ UNCHANGED <<table, sessions, nextSession, hist>>

\* get_todo
GetTodo(r) ==
    /\ req[r].pc = "query" /\ req[r].op = "get"
    /\ LET todo == First(table, req[r].todo_id)
       IN  req' = [req EXCEPT ![r] =
                      IF todo = None THEN NotFound(r)
                      ELSE Respond(r, 200, "", {Val(todo)})]
    /\ UNCHANGED <<table, sessions, nextSession, hist>>

\* create_todo: db.commit() flushes the INSERT
CreateCommit(r) ==
    /\ req[r].pc = "commit" /\ req[r].op = "create"
    /\ LET new == NewTodo(Val(req[r].upd.content))
           id  == NextRowId(table)
       IN  /\ table' = Insert(table, new)
           /\ req' = [req EXCEPT ![r].pc = "refresh", ![r].todo_id = id,
                                 ![r].wrote = (table' # table)]
           /\ assigned' = Append(assigned, id)
    /\ UNCHANGED <<sessions, nextSession, deleted, overtaken>>

\* create_todo / update_todo: db.refresh(obj) re-selects the row by primary
\* key and raises InvalidRequestError when the row is gone
Refresh(r) ==
    /\ req[r].pc = "refresh"
    /\ LET todo == First(table, req[r].todo_id)
       IN  req' = [req EXCEPT ![r] =
                      IF todo = None
                      THEN Respond(r, 500, "Could not refresh instance", {})
                      ELSE [Respond(r, IF req[r].op = "create" THEN 201 ELSE 200,
                                    "", {Val(todo)})
                            EXCEPT !.todo = todo]]
    /\ UNCHANGED <<table, sessions, nextSession, hist>>

\* update_todo up to db.commit(): the query, the 404 and the assignments
UpdateQuery(r) ==
    /\ req[r].pc = "query" /\ req[r].op = "update"
    /\ LET todo == First(table, req[r].todo_id)
       IN  req' = [req EXCEPT ![r] =
                      IF todo = None THEN NotFound(r)
                      ELSE [req[r] EXCEPT
                              !.pc = "commit", !.loaded = todo,
                              !.todo = Some(ApplyUpdate(Val(todo), req[r].upd))]]
    /\ UNCHANGED <<table, sessions, nextSession, hist>>

\* update_todo: db.commit() flushes an UPDATE of the dirty columns; nothing is
\* emitted when no attribute changed; an UPDATE matching no row raises
\* StaleDataError and a NULL content violates NOT NULL, both roll back
UpdateCommit(r) ==
    /\ req[r].pc = "commit" /\ req[r].op = "update"
    /\ LET id   == req[r].todo_id
           cols == Dirty(Val(req[r].loaded), Val(req[r].todo))
           gone == id \notin Ids(table)
       IN  /\ IF cols = {}
              THEN /\ table' = table
                   /\ req' = [req EXCEPT ![r].pc = "refresh"]
              ELSE IF gone
              THEN /\ table' = table
                   /\ req' = [req EXCEPT ![r] =
                                 Respond(r, 500, "StaleDataError", {})]
              ELSE IF "content" \in cols /\ Val(req[r].todo).content = None
              THEN /\ table' = table
                   /\ req' = [req EXCEPT ![r] =
                                 Respond(r, 500, "IntegrityError", {})]
              ELSE /\ table' = UpdateRows(table, id, cols, Val(req[r].todo))
                   /\ req' = [req EXCEPT ![r].pc = "refresh",
                                         ![r].wrote = (table' # table)]
           /\ overtaken' = IF gone THEN overtaken \cup {id} ELSE overtaken
    /\ UNCHANGED <<sessions, nextSession, assigned, deleted>>

\* delete_todo up to db.commit(): the query, the 404 and db.delete(todo)
DeleteQuery(r) ==
    /\ req[r].pc = "query" /\ req[r].op = "delete"
    /\ LET todo == First(table, req[r].todo_id)
       IN  req' = [req EXCEPT ![r] =
                      IF todo = None THEN NotFound(r)
                      ELSE [req[r] EXCEPT !.pc = "commit", !.loaded = todo,
                                          !.todo = todo]]
    /\ UNCHANGED <<table, sessions, nextSession, hist>>

\* delete_todo: db.commit() flushes the DELETE (a DELETE matching no row only
\* warns), then return None
DeleteCommit(r) ==
    /\ req[r].pc = "commit" /\ req[r].op = "delete"
    /\ LET id == req[r].todo_id
       IN  /\ table' = DeleteRows(table, id)
           /\ req' = [req EXCEPT ![r] =
                         [Respond(r, 204, "", {})
                          EXCEPT !.wrote = (table' # table)]]
           /\ deleted' = IF table' # table THEN deleted \cup {id} ELSE deleted
    /\ UNCHANGED <<sessions, nextSession, assigned, overtaken>>

\* A release that is skipped when the handler raised.
CloseOnSuccess(open, r) ==
    IF req[r].status >= 400 THEN open ELSE open \ {req[r].db}

\* get_db after its yield: finally: db.close()
CloseSession(open, r) == open \ {req[r].db}

\* the requests in flight once request r has left
Leave(r) ==
    [q \in Reqs |->
        IF q < r THEN req[q]
        ELSE IF q + 1 \in Reqs THEN req[q + 1] ELSE Idle]

\* the response is sent and the dependency's exit code runs
Close(r) ==
    /\ req[r].pc = "exit"
    /\ sessions' = CloseSession(sessions, r)
    /\ req' = Leave(r)
    /\ UNCHANGED <<table, nextSession, hist>>

\* the store is unavailable at a database call: the call raises
\* OperationalError, an open transaction is rolled back, the handler has no
\* except clause and the error leaves it
StoreError(r) ==
    /\ req[r].pc \in {"query", "commit", "refresh"}
    /\ req' = [req EXCEPT ![r] = Respond(r, 500, "OperationalError", {})]
    /\ UNCHANGED <<table, sessions, nextSession, hist>>

Step(r) ==
    \/ ListTodos(r) \/ GetTodo(r)
    \/ CreateCommit(r) \/ Refresh(r)
    \/ UpdateQuery(r) \/ UpdateCommit(r)
    \/ DeleteQuery(r) \/ DeleteCommit(r)
    \/ Close(r)

Next ==
    \/ \E r \in Reqs : RequestList(r)
    \/ \E r \in Reqs : RequestGet(r)
    \/ \E r \in Reqs : RequestCreate(r)
    \/ \E r \in Reqs : RequestUpdate(r)
    \/ \E r \in Reqs : RequestDelete(r)
    \/ \E r \in Reqs : ListTodos(r)
    \/ \E r \in Reqs : GetTodo(r)
    \/ \E r \in Reqs : CreateCommit(r)
    \/ \E r \in Reqs : Refresh(r)
    \/ \E r \in Reqs : UpdateQuery(r)
    \/ \E r \in Reqs : UpdateCommit(r)
    \/ \E r \in Reqs : DeleteQuery(r)
    \/ \E r \in Reqs : DeleteCommit(r)
    \/ \E r \in Reqs : Close(r)

\* the service on an available store
Spec == Init /\ [][Next]_vars

NextFault == Next \/ \E r \in Reqs : StoreError(r)

\* the service on a store that can fail at any database call; a worker thread
\* that has a request always gets to run its next step
FaultSpec ==
    Init /\ [][NextFault]_vars /\ \A r \in Reqs : WF_vars(Step(r))

TypeOK ==
    /\ \A row \in table : row.todo_id \in 1..(MaxRequests + 1)
    /\ \A r \in Reqs : req[r].pc \in {"idle", "query", "commit", "refresh", "exit"}
    /\ sessions \subseteq 1..MaxRequests

(* ------------------------------ properties ----------------------------- *)
Active(r) == req[r].pc # "idle"
\* the step is a step of request r, which stays in flight
Stepping(r) == req'[r] # req[r] /\ req'[r].db = req[r].db
RowOf(t, id) == CHOOSE row \in t : row.todo_id = id

\* C1: the id a Create assigns differs from every id an earlier Create
\* assigned, deleted items included.
IdsNeverRecycled ==
    \A i, j \in DOMAIN assigned : i # j => assigned[i] # assigned[j]

\* C2: Get, Update and Delete on an id that is not in the table answer
\* 404 "Todo not found" at their query, without touching the table then or
\* at any other step of the request.
NotFoundForAbsentIds ==
    [][\A r \in Reqs :
          /\ (/\ Stepping(r)
              /\ req[r].pc = "query"
              /\ req[r].op \in {"get", "update", "delete"}
              /\ req[r].todo_id \notin Ids(table))
             => /\ req'[r].pc = "exit"
                /\ req'[r].status = 404
                /\ req'[r].detail = "Todo not found"
                /\ table' = table
          /\ req'[r].status = 404 => ~req'[r].wrote]_vars

\* a Get or second Delete of an id that a Delete removed has answered 404
NotFoundAfterDelete ==
    \E r \in Reqs :
        /\ req[r].op \in {"get", "delete"}
        /\ req[r].status = 404
        /\ req[r].todo_id \in deleted
        /\ req[r].todo_id \notin Ids(table)

\* C3: the commit of an Update keeps every row's id, leaves the other rows
\* alone and leaves a field that was not supplied as it is in the table; on a
\* row nobody changed since the read it stores exactly the supplied fields;
\* with neither field supplied it writes nothing and the request answers 200
\* with the stored item.
UpdateChangesOnlySupplied ==
    [][\A r \in Reqs :
          (Stepping(r) /\ req[r].op = "update") =>
            LET id == req[r].todo_id
                u  == req[r].upd
            IN  /\ req[r].pc = "commit" =>
                      /\ Ids(table') = Ids(table)
                      /\ Cardinality(table') = Cardinality(table)
                      /\ \A row \in table :
                            IF row.todo_id # id THEN row \in table'
                            ELSE LET new == RowOf(table', id)
                                 IN  /\ u.content = None
                                          => new.content = row.content
                                     /\ u.completed = None
                                          => new.completed = row.completed
                                     /\ row = Val(req[r].loaded)
                                          => /\ u.content # None
                                                  => new.content = u.content
                                             /\ u.completed # None
                                                  => new.completed = u.completed
                      /\ u = NoUpdate
                            => table' = table /\ req'[r].pc = "refresh"
                /\ (/\ req[r].pc = "refresh"
                    /\ u = NoUpdate
                    /\ Val(req[r].loaded) \in table)
                      => /\ req'[r].status = 200
                         /\ req'[r].body = {Val(req[r].loaded)}
                         /\ table' = table]_vars

\* an Update that supplied content only has rewritten an item that was
\* completed and answered with it still completed
ContentOnlyUpdateDone ==
    \E r \in Reqs :
        /\ req[r].op = "update" /\ req[r].pc = "exit" /\ req[r].status = 200
        /\ req[r].upd.content # None /\ req[r].upd.completed = None
        /\ req[r].wrote
        /\ req[r].body = {Row(req[r].todo_id, req[r].upd.content, Some(TRUE))}
        /\ req[r].body \subseteq table

\* C4: the commit of a Create adds exactly one row: an id that is not in the
\* table, the request's content (whatever the string) and completed = false;
\* the Create answers 201 with that row, and a Get of an id that is in the
\* table answers 200 with its row.
CreateThenGet ==
    [][\A r \in Reqs :
          Stepping(r) =>
            /\ (req[r].op = "create" /\ req[r].pc = "commit") =>
                  LET new == Row(req'[r].todo_id, req[r].upd.content, Some(FALSE))
                  IN  /\ req'[r].pc = "refresh"
                      /\ new.todo_id \notin Ids(table)
                      /\ table' = table \cup {new}
                      /\ Cardinality(table') = Cardinality(table) + 1
            /\ (req[r].op = "create" /\ req[r].pc = "refresh") =>
                  LET new == Row(req[r].todo_id, req[r].upd.content, Some(FALSE))
                  IN  new \in table
                        => req'[r].status = 201 /\ req'[r].body = {new}
            /\ (req[r].op = "get" /\ req[r].pc = "query") =>
                  \A row \in table :
                      row.todo_id = req[r].todo_id
                        => req'[r].status = 200 /\ req'[r].body = {row}]_vars

\* a Create with empty content has answered 201 and a Get of the new id has
\* answered with the same item
EmptyContentCreatedAndRead ==
    \E c, g \in Reqs :
        /\ req[c].op = "create" /\ req[c].status = 201
        /\ req[c].upd.content = Some("")
        /\ req[c].body = {Row(req[c].todo_id, Some(""), Some(FALSE))}
        /\ req[g].op = "get" /\ req[g].status = 200
        /\ req[g].todo_id = req[c].todo_id
        /\ req[g].body = req[c].body

\* C5: List answers 200 with exactly the rows of the table and leaves the
\* table alone: the empty collection on an empty table and, as long as no
\* Delete removed a row, one item per committed Create with distinct ids.
ListReturnsTheStore ==
    [][\A r \in Reqs :
          (Stepping(r) /\ req[r].op = "list" /\ req[r].pc = "query") =>
            /\ req'[r].status = 200
            /\ req'[r].body = table
            /\ table' = table
            /\ Len(assigned) = 0 => req'[r].body = {}
            /\ deleted = {} =>
                  /\ Cardinality(req'[r].body) = Len(assigned)
                  /\ Ids(req'[r].body) = {assigned[i] : i \in DOMAIN assigned}
                  /\ Cardinality(Ids(req'[r].body)) = Len(assigned)]_vars

\* a List has answered with several items, one of them completed, after
\* Creates and no Delete
ListedSeveral ==
    \E r \in Reqs :
        /\ req[r].op = "list" /\ req[r].status = 200
        /\ deleted = {}
        /\ Cardinality(req[r].body) >= 2
        /\ Cardinality(req[r].body) = Len(assigned)
        /\ \E row \in req[r].body : row.completed = Some(TRUE)

\* the request's commit went through
Committed(r) ==
    req[r].pc = "refresh" \/ (req[r].pc = "exit" /\ req[r].status = 200)

\* C6: when two Updates of one id that read the same item have both
\* committed, the stored item is the result of applying them one after the
\* other in one of the two orders.
UpdatesSerializable ==
    \A r1, r2 \in Reqs :
        (/\ r1 # r2
         /\ req[r1].op = "update" /\ req[r2].op = "update"
         /\ req[r1].todo_id = req[r2].todo_id
         /\ Committed(r1) /\ Committed(r2)
         /\ req[r1].loaded = req[r2].loaded)
        => LET base == Val(req[r1].loaded)
               u1   == req[r1].upd
               u2   == req[r2].upd
           IN  \A row \in table :
                   row.todo_id = req[r1].todo_id
                     => row \in {ApplyUpdate(ApplyUpdate(base, u1), u2),
                                 ApplyUpdate(ApplyUpdate(base, u2), u1)}

\* C7: a Create, Update or Delete that fails (404 or a store failure at any
\* database call) has written nothing to the table.
FailedRequestWroteNothing ==
    \A r \in Reqs :
        (req[r].pc = "exit" /\ req[r].status >= 400) => ~req[r].wrote

\* C8: the open sessions are exactly the sessions of the requests in flight,
\* one session per request and none shared, and every request in flight is
\* at a step its handler has; so a request that has ended, by a return, a 404
\* or a store error, leaves no session open.
SessionPerRequest ==
    /\ sessions = {req[r].db : r \in {q \in Reqs : Active(q)}}
    /\ \A r1, r2 \in Reqs :
          (r1 # r2 /\ Active(r1) /\ Active(r2)) => req[r1].db # req[r2].db
    /\ \A r \in Reqs : Active(r) => req[r].db \in 1..(nextSession - 1)
    /\ \A r \in Reqs : ~Active(r) => req[r].db = 0
    /\ \A r \in Reqs :
          /\ req[r].pc = "query"
                => req[r].op \in {"list", "get", "update", "delete"}
          /\ req[r].pc = "commit" => req[r].op \in {"create", "update", "delete"}
          /\ req[r].pc = "refresh" => req[r].op \in {"create", "update"}
          /\ req[r].pc = "exit" => req[r].status \in {200, 201, 204, 404, 500}

\* the only two requests so far were an Update and the Delete that overtook
\* it: the Update raised a store error, and no session is left open
SessionsClosedAfterError ==
    /\ overtaken # {}
    /\ table = {}
    /\ nextSession = 3
    /\ \A r \in Reqs : ~Active(r)
    /\ sessions = {}

\* The liveness reading of the session claim: under FaultSpec's fairness
\* every session that is opened is eventually closed.
EventuallyReleased ==
    \A s \in 1..MaxRequests : (s \in sessions) ~> (s \notin sessions)

\* C9: the rows of the table have pairwise distinct ids, a content and a
\* boolean completed, never NULL, and so have the items of every 200/201
\* response.
Complete(row) ==
    /\ row.content \in {Some(c) : c \in Contents}
    /\ row.completed \in {Some(b) : b \in BOOLEAN}

CompleteRecords ==
    /\ \A row \in table : Complete(row)
    /\ \A r1, r2 \in table : r1.todo_id = r2.todo_id => r1 = r2
    /\ \A r \in Reqs : \A row \in req[r].body : Complete(row)

\* an Update that supplied completed only has been stored next to another
\* item
PartialUpdateStored ==
    \E r \in Reqs :
        /\ req[r].op = "update" /\ req[r].status = 200 /\ req[r].wrote
        /\ req[r].upd.content = None
        /\ Cardinality(table) >= 2
        /\ req[r].body \subseteq table

\* C10: an id that a Delete removed between the read and the commit of an
\* Update is absent from the table from then on, and no Update of it
\* answers 200.
DeleteNeverUndone ==
    \A id \in overtaken :
        /\ id \notin Ids(table)
        /\ \A r \in Reqs :
              (req[r].op = "update" /\ req[r].todo_id = id
               /\ req[r].pc = "exit" /\ req[r].loaded # None
               /\ Val(req[r].loaded) \notin table)
              => req[r].status # 200
====
